---- MODULE Spec2Model ----
(***************************************************************************)
(* file_processor (src/src/lib.rs): the three directory scans              *)
(*   find_and_then_and_load, find_by_extension_and_then, find_and_then.    *)
(* One call of one of the three functions is modelled from its entry to    *)
(* its return (or panic), one loop iteration per step.                     *)
(*                                                                         *)
(* An OsStr is a sequence of characters; the character BAD stands for a    *)
(* byte sequence that is not valid UTF-8.  An Option is a sequence of      *)
(* length 0 (None) or 1 (Some).  Vec indices are 0-based as in the code.   *)
(***************************************************************************)
EXTENDS Integers, Sequences, FiniteSets, TLC

\* ------------------------------------------------------------------ bounds
MaxEntries == 3     \* longest directory listing
MaxReq     == 3     \* longest `filenames` vector
MaxExt     == 2     \* longest `extensions` vector

\* ------------------------------------------------------------------ inputs
BAD == "0xFF"

\* file names a directory of a name-based scan may hold
NameFiles == { <<"a">>, <<"b">>, <<"c">>, <<BAD>> }
\* names a caller asks for (Strings: always valid text)
ReqNames == { <<"a">>, <<"b">>, <<"c">> }
\* file names a directory of an extension scan may hold
ExtFiles == { <<"a", ".", "t">>, <<"b", ".", "t">>, <<"c", ".", "l">>,
              <<"a", ".", "T">>, <<"a">>, <<".", "t">>,
              <<BAD, ".", "t">>, <<"a", ".", BAD>> }
\* extensions a caller asks for
ReqExts == { <<"t">>, <<"l">> }

\* io::Result<DirEntry>: Err(_) or Ok(entry named `name`)
ErrEntry == [ok |-> FALSE, name |-> <<>>]
FileEntry(nm) == [ok |-> TRUE, name |-> nm]

SeqsUpTo(S, n) == UNION { [1..k -> S] : k \in 0..n }

\* the names of a listing are pairwise distinct (one directory level)
DistinctNames(l) ==
    \A i, j \in 1..Len(l) : (i # j /\ l[i].ok /\ l[j].ok) => l[i].name # l[j].name

\* listings in which an enumeration may repeat a name
AnyListings(files) ==
    SeqsUpTo({ErrEntry} \cup { FileEntry(nm) : nm \in files }, MaxEntries)

Listings(files) ==
    { l \in SeqsUpTo({ErrEntry} \cup { FileEntry(nm) : nm \in files }, MaxEntries) :
        DistinctNames(l) }

\* the directory argument: is the path valid UTF-8, does it exist, can it be listed
Directories ==
    { d \in [text : BOOLEAN, exists : BOOLEAN, listable : BOOLEAN] :
        d.listable => d.exists }

\* --------------------------------------------------------- library helpers
None == <<>>
Some(x) == <<x>>

\* OsStr::to_str / Path::to_str: Some(text) iff the bytes are valid UTF-8
ToStr(os) == IF \E k \in 1..Len(os) : os[k] = BAD THEN None ELSE Some(os)

\* positions of '.' in a file name
Dots(nm) == { k \in 1..Len(nm) : nm[k] = "." }
LastDot(nm) == CHOOSE k \in Dots(nm) : \A m \in Dots(nm) : m <= k

\* Path::extension of an entry's path: the part after the last '.', None when
\* there is no '.', or when the only '.' is the first character
Extension(nm) ==
    IF Dots(nm) = {} THEN None
    ELSE IF LastDot(nm) = 1 THEN None
    ELSE Some(SubSeq(nm, LastDot(nm) + 1, Len(nm)))

\* Contains comparing without regard to ASCII case
Lower(c) == IF c = "T" THEN "t" ELSE c
ContainsIgnoreCase(v, s) ==
    \E k \in 1..Len(v) :
        /\ Len(v[k]) = Len(s)
        /\ \A m \in 1..Len(s) : Lower(v[k][m]) = Lower(s[m])

\* Vec<String>::contains
Contains(v, s) == \E k \in 1..Len(v) : v[k] = s

\* (0..n).collect()
Range(n) == [k \in 1..n |-> k - 1]

\* first (i, s) of filenames.iter().enumerate() with s == name; -1 when none
NoMatch == 0 - 1
\* FirstMatch that never looks at the last element of filenames
FirstMatchSkipLast(fnames, name) ==
    IF \E k \in 1..(Len(fnames) - 1) : fnames[k] = name
    THEN (CHOOSE k \in 1..(Len(fnames) - 1) :
            fnames[k] = name /\ \A m \in 1..(k - 1) : fnames[m] # name) - 1
    ELSE NoMatch
FirstMatch(fnames, name) ==
    IF \E k \in 1..Len(fnames) : fnames[k] = name
    THEN (CHOOSE k \in 1..Len(fnames) :
            fnames[k] = name /\ \A m \in 1..(k - 1) : fnames[m] # name) - 1
    ELSE NoMatch

\* Vec::remove(i) panics when i >= len
RemoveOk(v, i) == i < Len(v)
\* Vec::swap_remove(i) in place of remove(i): the last element takes the place
\* of the removed one
SwapRemove(v, i) ==
    IF i + 1 = Len(v) THEN SubSeq(v, 1, i)
    ELSE [k \in 1..(Len(v) - 1) |-> IF k = i + 1 THEN v[Len(v)] ELSE v[k]]

\* Vec::remove(i): drop the element at position i, shifting the rest left
Remove(v, i) == SubSeq(v, 1, i) \o SubSeq(v, i + 2, Len(v))

\* ------------------------------------------------------------------ results
Running == [tag |-> "Running", idx |-> <<>>]
Ok == [tag |-> "Ok", idx |-> <<>>]
Err(t) == [tag |-> t, idx |-> <<>>]
MissingFiles(ix) == [tag |-> "MissingFiles", idx |-> ix]
Panic(why) == [tag |-> "Panic", idx |-> <<why>>]

ErrorTags == { "InvalidUnicodeData", "NullDirectory", "CouldNotOpenEntry",
               "DirectoryDoesNotExist", "MissingFiles" }

\* what process() hands back to find_and_then_and_load: a path that is valid
\* text and loadable, a path that is not valid text, a path that cannot be read
TransformOutcomes == { "ok", "not_text", "unreadable" }

\* ------------------------------------------------------------------- state
VARIABLES
    op,            \* which function is called: "load", "ext" or "name"
    directory,     \* the directory argument
    filenames,     \* the `filenames` argument (name-based calls)
    extensions,    \* the `extensions` argument (extension call)
    ignore_fail,   \* the `ignore_fail` argument
    listing,       \* what read_dir yields, in enumeration order
    pc,            \* "call", "scan" or "done"
    pos,           \* number of items taken from the read_dir iterator
    count,         \* local `count`
    indexes,       \* local `indexes`
    binaries,      \* local `binaries` (each buffer named by the entry it came from)
    calls,         \* the entries process() was invoked on, in order
    result,        \* the value returned (or the panic)
    existsChecked, \* directory.exists() was evaluated
    opened         \* read_dir(dir) was called

vars == << op, directory, filenames, extensions, ignore_fail, listing, pc, pos,
           count, indexes, binaries, calls, result, existsChecked, opened >>

args == << op, directory, filenames, extensions, ignore_fail, listing >>

\* the locals of a scan, as one record
Locals == [count |-> count, indexes |-> indexes, binaries |-> binaries,
           calls |-> calls, result |-> result]

\* -------------------------------------------------------------------- Init
\* the state at function entry, locals initialised (lines 40-44, 156-158),
\* for a directory whose listing is drawn from nameListings (name-based
\* calls) or extListings (extension call)
InitOver(nameListings, extListings) ==
    /\ op \in {"load", "ext", "name"}
    /\ directory \in Directories
    /\ ignore_fail \in BOOLEAN
    /\ IF op = "ext"
       THEN /\ filenames = <<>>
            /\ extensions \in SeqsUpTo(ReqExts, MaxExt)
            /\ listing \in extListings
       ELSE /\ filenames \in SeqsUpTo(ReqNames, MaxReq)
            /\ extensions = <<>>
            /\ listing \in nameListings
    /\ (~directory.listable) => listing = <<>>
    /\ pc = "call"
    /\ pos = 0
    /\ count = 0
    /\ indexes = Range(Len(filenames))
    /\ binaries = <<>>
    /\ calls = <<>>
    /\ result = Running
    /\ existsChecked = FALSE
    /\ opened = FALSE

\* a call on a directory whose enumeration yields every name once
Init == InitOver(Listings(NameFiles), Listings(ExtFiles))

\* a call on a directory whose enumeration may yield a name more than once
\* (read_dir promises no uniqueness when the directory changes under the scan)
InitDup == InitOver(AnyListings(NameFiles), AnyListings(ExtFiles))

\* ------------------------------------------------------ directory checks
\* match directory.to_str() { Some(dir) => { if !directory.exists() {return ..}
\*   .. read_dir(dir).unwrap() .. }, None => Err(NullDirectory) }
\* gives the result of the checks (Running: the loop is entered) and which
\* of exists() and read_dir() were evaluated
\* DirCheck without the `if !directory.exists()` early return
DirCheckNoExists(d) ==
    IF ~d.text THEN [result |-> Err("NullDirectory"), checked |-> FALSE, opened |-> FALSE]
    ELSE IF ~d.listable
         THEN [result |-> Panic("read_dir"), checked |-> FALSE, opened |-> TRUE]
    ELSE [result |-> Running, checked |-> FALSE, opened |-> TRUE]

\* DirCheck testing existence before the path is converted to text
DirCheckExistsFirst(d) ==
    IF ~d.exists
    THEN [result |-> Err("DirectoryDoesNotExist"), checked |-> TRUE, opened |-> FALSE]
    ELSE IF ~d.text
         THEN [result |-> Err("NullDirectory"), checked |-> TRUE, opened |-> FALSE]
    ELSE IF ~d.listable
         THEN [result |-> Panic("read_dir"), checked |-> TRUE, opened |-> TRUE]
    ELSE [result |-> Running, checked |-> TRUE, opened |-> TRUE]

DirCheck(d) ==
    IF ~d.text THEN [result |-> Err("NullDirectory"), checked |-> FALSE, opened |-> FALSE]
    ELSE IF ~d.exists
         THEN [result |-> Err("DirectoryDoesNotExist"), checked |-> TRUE, opened |-> FALSE]
    ELSE IF ~d.listable
         THEN [result |-> Panic("read_dir"), checked |-> TRUE, opened |-> TRUE]
    ELSE [result |-> Running, checked |-> TRUE, opened |-> TRUE]

Begin(o) ==
    /\ op = o
    /\ pc = "call"
    /\ LET c == DirCheck(directory) IN
        /\ result' = c.result
        /\ existsChecked' = c.checked
        /\ opened' = c.opened
        /\ pc' = IF c.result = Running THEN "scan" ELSE "done"
    /\ UNCHANGED << args, pos, count, indexes, binaries, calls >>

\* -------------------------------------------------------- loop bodies
\* NameBody whose unreadable-entry arm returns the error whatever ignore_fail is
NameBodyAlwaysFail(st, fnames, ign, e) ==
    IF ~e.ok
    THEN [st EXCEPT !.result = Err("CouldNotOpenEntry")]
    ELSE IF ToStr(e.name) = None
    THEN IF ~ign THEN [st EXCEPT !.result = Err("InvalidUnicodeData")] ELSE st
    ELSE LET i == FirstMatch(fnames, ToStr(e.name)[1]) IN
         IF i = NoMatch THEN st
         ELSE IF RemoveOk(st.indexes, i)
         THEN [st EXCEPT !.calls = Append(@, e.name),
                         !.count = @ + 1,
                         !.indexes = Remove(@, i)]
         ELSE [st EXCEPT !.calls = Append(@, e.name),
                         !.count = @ + 1,
                         !.result = Panic("remove")]

\* NameBody whose invalid-name arm skips the entry whatever ignore_fail is
NameBodySkipInvalid(st, fnames, ign, e) ==
    IF ~e.ok
    THEN IF ~ign THEN [st EXCEPT !.result = Err("CouldNotOpenEntry")] ELSE st
    ELSE IF ToStr(e.name) = None
    THEN st
    ELSE LET i == FirstMatch(fnames, ToStr(e.name)[1]) IN
         IF i = NoMatch THEN st
         ELSE IF RemoveOk(st.indexes, i)
         THEN [st EXCEPT !.calls = Append(@, e.name),
                         !.count = @ + 1,
                         !.indexes = Remove(@, i)]
         ELSE [st EXCEPT !.calls = Append(@, e.name),
                         !.count = @ + 1,
                         !.result = Panic("remove")]

\* one iteration of the loop of find_and_then (lines 167-186)
NameBody(st, fnames, ign, e) ==
    IF ~e.ok
    THEN IF ~ign THEN [st EXCEPT !.result = Err("CouldNotOpenEntry")] ELSE st
    ELSE IF ToStr(e.name) = None
    THEN IF ~ign THEN [st EXCEPT !.result = Err("InvalidUnicodeData")] ELSE st
    ELSE LET i == FirstMatch(fnames, ToStr(e.name)[1]) IN
         IF i = NoMatch THEN st
         ELSE IF RemoveOk(st.indexes, i)
         THEN [st EXCEPT !.calls = Append(@, e.name),
                         !.count = @ + 1,
                         !.indexes = Remove(@, i)]
         ELSE [st EXCEPT !.calls = Append(@, e.name),
                         !.count = @ + 1,
                         !.result = Panic("remove")]

\* LoadBody that puts each new buffer in front of the ones already loaded
LoadBodyPushFront(st, fnames, ign, e, out) ==
    IF ~e.ok
    THEN IF ~ign THEN [st EXCEPT !.result = Err("CouldNotOpenEntry")] ELSE st
    ELSE IF ToStr(e.name) = None
    THEN IF ~ign THEN [st EXCEPT !.result = Err("InvalidUnicodeData")] ELSE st
    ELSE LET i == FirstMatch(fnames, ToStr(e.name)[1]) IN
         IF i = NoMatch THEN st
         ELSE IF out = "not_text"
         THEN [st EXCEPT !.calls = Append(@, e.name), !.result = Panic("expect")]
         ELSE IF out = "unreadable"
         THEN [st EXCEPT !.calls = Append(@, e.name), !.result = Panic("load_bytes")]
         ELSE IF RemoveOk(st.indexes, i)
         THEN [st EXCEPT !.calls = Append(@, e.name),
                         !.binaries = << e.name >> \o @,
                         !.count = @ + 1,
                         !.indexes = Remove(@, i)]
         ELSE [st EXCEPT !.calls = Append(@, e.name),
                         !.binaries = << e.name >> \o @,
                         !.count = @ + 1,
                         !.result = Panic("remove")]

\* LoadBody that forgets `count += 1`
LoadBodyNoCount(st, fnames, ign, e, out) ==
    IF ~e.ok
    THEN IF ~ign THEN [st EXCEPT !.result = Err("CouldNotOpenEntry")] ELSE st
    ELSE IF ToStr(e.name) = None
    THEN IF ~ign THEN [st EXCEPT !.result = Err("InvalidUnicodeData")] ELSE st
    ELSE LET i == FirstMatch(fnames, ToStr(e.name)[1]) IN
         IF i = NoMatch THEN st
         ELSE IF out = "not_text"
         THEN [st EXCEPT !.calls = Append(@, e.name), !.result = Panic("expect")]
         ELSE IF out = "unreadable"
         THEN [st EXCEPT !.calls = Append(@, e.name), !.result = Panic("load_bytes")]
         ELSE IF RemoveOk(st.indexes, i)
         THEN [st EXCEPT !.calls = Append(@, e.name),
                         !.binaries = Append(@, e.name),
                         !.indexes = Remove(@, i)]
         ELSE [st EXCEPT !.calls = Append(@, e.name),
                         !.binaries = Append(@, e.name),
                         !.result = Panic("remove")]

\* one iteration of the loop of find_and_then_and_load (lines 53-72); out is
\* what process() returns for this entry
LoadBody(st, fnames, ign, e, out) ==
    IF ~e.ok
    THEN IF ~ign THEN [st EXCEPT !.result = Err("CouldNotOpenEntry")] ELSE st
    ELSE IF ToStr(e.name) = None
    THEN IF ~ign THEN [st EXCEPT !.result = Err("InvalidUnicodeData")] ELSE st
    ELSE LET i == FirstMatch(fnames, ToStr(e.name)[1]) IN
         IF i = NoMatch THEN st
         ELSE IF out = "not_text"
         THEN [st EXCEPT !.calls = Append(@, e.name), !.result = Panic("expect")]
         ELSE IF out = "unreadable"
         THEN [st EXCEPT !.calls = Append(@, e.name), !.result = Panic("load_bytes")]
         ELSE IF RemoveOk(st.indexes, i)
         THEN [st EXCEPT !.calls = Append(@, e.name),
                         !.binaries = Append(@, e.name),
                         !.count = @ + 1,
                         !.indexes = Remove(@, i)]
         ELSE [st EXCEPT !.calls = Append(@, e.name),
                         !.binaries = Append(@, e.name),
                         !.count = @ + 1,
                         !.result = Panic("remove")]

\* ExtBody treating an extension that is not valid text as the name-based
\* functions treat a name that is not valid text
ExtBodyInvalidIsError(st, exts, ign, e) ==
    IF ~e.ok
    THEN IF ~ign THEN [st EXCEPT !.result = Err("CouldNotOpenEntry")] ELSE st
    ELSE IF Extension(e.name) = None THEN st
    ELSE IF ToStr(Extension(e.name)[1]) = None
    THEN IF ~ign THEN [st EXCEPT !.result = Err("InvalidUnicodeData")] ELSE st
    ELSE IF Contains(exts, ToStr(Extension(e.name)[1])[1])
         THEN [st EXCEPT !.calls = Append(@, e.name)]
         ELSE st

\* one iteration of the loop of find_by_extension_and_then (lines 110-127)
ExtBody(st, exts, ign, e) ==
    IF ~e.ok
    THEN IF ~ign THEN [st EXCEPT !.result = Err("CouldNotOpenEntry")] ELSE st
    ELSE IF Extension(e.name) = None THEN st
    ELSE IF ToStr(Extension(e.name)[1]) = None THEN st
    ELSE IF Contains(exts, ToStr(Extension(e.name)[1])[1])
         THEN [st EXCEPT !.calls = Append(@, e.name)]
         ELSE st

\* NameEnd that takes "nothing matched" for failure
NameEndNonEmpty(st, fnames) ==
    IF st.count = Len(fnames) /\ st.count > 0
    THEN [st EXCEPT !.result = Ok]
    ELSE [st EXCEPT !.result = MissingFiles(st.indexes)]

\* the end of find_and_then (lines 189-193)
NameEnd(st, fnames) ==
    IF st.count = Len(fnames)
    THEN [st EXCEPT !.result = Ok]
    ELSE [st EXCEPT !.result = MissingFiles(st.indexes)]

\* the end of find_and_then_and_load (lines 75-79)
LoadEnd(st, fnames) ==
    IF st.count = Len(fnames)
    THEN [st EXCEPT !.result = Ok]
    ELSE [st EXCEPT !.result = MissingFiles(st.indexes)]

\* the end of the extension call (line 130)
ExtEnd(st) == [st EXCEPT !.result = Ok]

\* ------------------------------------------------------------ whole scans
\* the locals at the start of a call
Start(fnames) ==
    [count |-> 0, indexes |-> Range(Len(fnames)), binaries |-> <<>>,
     calls |-> <<>>, result |-> Running]

\* the loop of find_and_then over the entries l, up to an early return
\* (lines 166-187)
RECURSIVE NameScan(_, _, _, _)
NameScan(st, fnames, ign, l) ==
    IF st.result # Running \/ l = <<>> THEN st
    ELSE NameScan(NameBody(st, fnames, ign, Head(l)), fnames, ign, Tail(l))

\* the loop and the end of find_and_then over the listing l (lines 166-193)
RECURSIVE RunName(_, _, _, _)
RunName(st, fnames, ign, l) ==
    IF st.result # Running THEN st
    ELSE IF l = <<>> THEN NameEnd(st, fnames)
    ELSE RunName(NameBody(st, fnames, ign, Head(l)), fnames, ign, Tail(l))

\* the loop and the end of find_and_then_and_load over the listing l, with a
\* process() whose paths always load (lines 52-79)
RECURSIVE RunLoad(_, _, _, _)
RunLoad(st, fnames, ign, l) ==
    IF st.result # Running THEN st
    ELSE IF l = <<>> THEN LoadEnd(st, fnames)
    ELSE RunLoad(LoadBody(st, fnames, ign, Head(l), "ok"), fnames, ign, Tail(l))

\* the loop and the end of find_by_extension_and_then over l (lines 109-130)
RECURSIVE RunExt(_, _, _, _)
RunExt(st, exts, ign, l) ==
    IF st.result # Running THEN st
    ELSE IF l = <<>> THEN ExtEnd(st)
    ELSE RunExt(ExtBody(st, exts, ign, Head(l)), exts, ign, Tail(l))

\* ---------------------------------------------------------------- actions
Store(st) ==
    /\ count' = st.count
    /\ indexes' = st.indexes
    /\ binaries' = st.binaries
    /\ calls' = st.calls
    /\ result' = st.result
    /\ pc' = IF st.result = Running THEN "scan" ELSE "done"

NameBegin == Begin("name")
LoadBegin == Begin("load")
ExtBegin == Begin("ext")

NameEntry ==
    /\ op = "name" /\ pc = "scan" /\ pos < Len(listing)
    /\ pos' = pos + 1
    /\ Store(NameBody(Locals, filenames, ignore_fail, listing[pos + 1]))
    /\ UNCHANGED << args, existsChecked, opened >>

LoadEntry ==
    /\ op = "load" /\ pc = "scan" /\ pos < Len(listing)
    /\ pos' = pos + 1
    /\ \E out \in TransformOutcomes :
          Store(LoadBody(Locals, filenames, ignore_fail, listing[pos + 1], out))
    /\ UNCHANGED << args, existsChecked, opened >>

ExtEntry ==
    /\ op = "ext" /\ pc = "scan" /\ pos < Len(listing)
    /\ pos' = pos + 1
    /\ Store(ExtBody(Locals, extensions, ignore_fail, listing[pos + 1]))
    /\ UNCHANGED << args, existsChecked, opened >>

NameFinish ==
    /\ op = "name" /\ pc = "scan" /\ pos = Len(listing)
    /\ Store(NameEnd(Locals, filenames))
    /\ UNCHANGED << args, pos, existsChecked, opened >>

LoadFinish ==
    /\ op = "load" /\ pc = "scan" /\ pos = Len(listing)
    /\ Store(LoadEnd(Locals, filenames))
    /\ UNCHANGED << args, pos, existsChecked, opened >>

ExtFinish ==
    /\ op = "ext" /\ pc = "scan" /\ pos = Len(listing)
    /\ Store(ExtEnd(Locals))
    /\ UNCHANGED << args, pos, existsChecked, opened >>

Next ==
    \/ NameBegin \/ NameEntry \/ NameFinish
    \/ LoadBegin \/ LoadEntry \/ LoadFinish
    \/ ExtBegin \/ ExtEntry \/ ExtFinish

Spec == Init /\ [][Next]_vars

SpecDup == InitDup /\ [][Next]_vars

TypeOK ==
    /\ pc \in {"call", "scan", "done"}
    /\ pos \in 0..Len(listing)
    /\ count \in 0..MaxEntries
    /\ (pc = "done") <=> (result # Running)
\* ------------------------------------------------ vocabulary of the claims
Done == pc = "done"
NameBased == op \in {"name", "load"}
\* the directory argument names a directory whose entries read_dir yields
Listed == directory.text /\ directory.exists /\ directory.listable

\* the names of the readable entries of a listing
EntryNames(l) == { l[k].name : k \in { m \in 1..Len(l) : l[m].ok } }
NoDuplicates(s) == \A i, j \in 1..Len(s) : i # j => s[i] # s[j]
\* no unreadable entry, no name that is not valid text
CleanNames(l) == \A k \in 1..Len(l) : l[k].ok /\ \A m \in 1..Len(l[k].name) : l[k].name[m] # BAD
NoUnreadable(l) == \A k \in 1..Len(l) : l[k].ok
\* the call died inside process()/load_bytes!, not in the scan itself
TransformFault == result \in { Panic("expect"), Panic("load_bytes") }

\* a set of naturals as the increasing list of its members
SortedSeq(S) ==
    CHOOSE s \in [1..Cardinality(S) -> S] :
        \A i, j \in 1..Cardinality(S) : i < j => s[i] < s[j]

\* 0-based positions of `fnames` whose name no entry of the listing has
Unmatched(fnames, l) == { k - 1 : k \in { m \in 1..Len(fnames) : fnames[m] \notin EntryNames(l) } }

\* ---------------------------------------------------------------------- C1
\* C1: when find_and_then or find_and_then_and_load ends with MissingFiles,
\* the index list is exactly the positions of `filenames` whose name no
\* directory entry has (stated here for request lists without repeated names,
\* where "matched by no entry" has one reading).
C1_MissingListIsUnmatched ==
    (NameBased /\ result.tag = "MissingFiles" /\ NoDuplicates(filenames))
        => result.idx = SortedSeq(Unmatched(filenames, listing))

\* ---------------------------------------------------------------------- C2
\* C2: N distinct requested names, all present in a listable directory whose
\* listing has no unreadable or invalid-name entry, in any enumeration order:
\* find_and_then returns success and find_and_then_and_load returns success
\* with exactly N buffers (process() and load_bytes! themselves not failing).
C2_AllPresentSucceeds ==
    (Done /\ NameBased /\ Listed /\ NoDuplicates(filenames) /\ CleanNames(listing)
          /\ (\A k \in 1..Len(filenames) : filenames[k] \in EntryNames(listing))
          /\ ~TransformFault)
        => /\ result = Ok
           /\ op = "load" => Len(binaries) = Len(filenames)
\* ---------------------------------------------------------------------- C3
\* C3 as stated: whenever the directory argument does not exist, whatever the
\* form of the path, the call returns DirectoryDoesNotExist, read_dir is never
\* called, no entry is read and process() is never invoked.
C3_MissingDirectoryAnyPath ==
    (Done /\ ~directory.exists)
        => /\ result = Err("DirectoryDoesNotExist")
           /\ ~opened /\ pos = 0 /\ calls = <<>>

\* C3 amended: the same for a directory argument that is representable as
\* text and does not exist (all three functions, any request, any ignore_fail).
C3_MissingDirectory ==
    (Done /\ directory.text /\ ~directory.exists)
        => /\ result = Err("DirectoryDoesNotExist")
           /\ existsChecked /\ ~opened /\ pos = 0 /\ calls = <<>>

C3_Witness ==
    /\ Done /\ directory.text /\ ~directory.exists
    /\ op = "load" /\ Len(filenames) = 2 /\ ~ignore_fail
    /\ result = Err("DirectoryDoesNotExist")

\* ---------------------------------------------------------------------- C4
\* the first entry a name-based scan with ignore_fail = false stops at
\* (0 when there is none), and the error it stops with
NameFaulty(e) == ~e.ok \/ \E m \in 1..Len(e.name) : e.name[m] = BAD
FirstNameFault(l) ==
    IF \E k \in 1..Len(l) : NameFaulty(l[k])
    THEN CHOOSE k \in 1..Len(l) : NameFaulty(l[k]) /\ \A m \in 1..(k - 1) : ~NameFaulty(l[m])
    ELSE 0
NameFaultError(e) == IF ~e.ok THEN Err("CouldNotOpenEntry") ELSE Err("InvalidUnicodeData")

\* C4 as stated: for an existing (text-representable, listable) directory with
\* any entries and any ignore_fail, an empty request list makes find_and_then
\* return success and find_and_then_and_load return success with no buffer,
\* process() never invoked.
C4_EmptyRequestAlwaysSucceeds ==
    (Done /\ NameBased /\ Listed /\ filenames = <<>>)
        => result = Ok /\ binaries = <<>> /\ calls = <<>>

\* C4 amended: for such a directory and an empty request list process() is
\* never invoked and no buffer is loaded; the call returns success when
\* ignore_fail is true or the listing has no unreadable entry and no name that
\* is not valid text; with ignore_fail = false it returns the error of the
\* first such entry.
C4_EmptyRequest ==
    (Done /\ NameBased /\ Listed /\ filenames = <<>>)
        => /\ binaries = <<>> /\ calls = <<>>
           /\ IF ignore_fail \/ FirstNameFault(listing) = 0
              THEN result = Ok /\ pos = Len(listing)
              ELSE /\ pos = FirstNameFault(listing)
                   /\ result = NameFaultError(listing[FirstNameFault(listing)])

C4_Witness ==
    /\ Done /\ op = "name" /\ Listed /\ filenames = <<>> /\ ignore_fail
    /\ Len(listing) = 3 /\ ~listing[1].ok /\ listing[2] = FileEntry(<<BAD>>)
    /\ listing[3] = FileEntry(<<"a">>)
    /\ result = Ok
\* ---------------------------------------------------------------------- C5
IsReadable(e) == e.ok
IsReadableValidName(e) == ~NameFaulty(e)
\* the outcome (result, process() calls, buffers) of the called function on
\* the listing l
Outcome(l) ==
    LET st == IF op = "name" THEN RunName(Start(filenames), filenames, ignore_fail, l)
              ELSE IF op = "load" THEN RunLoad(Start(filenames), filenames, ignore_fail, l)
              ELSE RunExt(Start(filenames), extensions, ignore_fail, l)
    IN << st.result, st.calls, st.binaries >>

\* C5 as stated: with ignore_fail = true no function returns CouldNotOpenEntry
\* or InvalidUnicodeData, and every unreadable entry and every entry whose
\* name is not valid text is skipped: the outcome is that of the same scan on
\* the listing without those entries.
C5_IgnoreFailSkipsInvalidNames ==
    (Done /\ ignore_fail /\ Listed /\ ~TransformFault)
        => /\ result.tag \notin {"CouldNotOpenEntry", "InvalidUnicodeData"}
           /\ << result, calls, binaries >> = Outcome(SelectSeq(listing, IsReadableValidName))

\* C5 amended: with ignore_fail = true no function returns CouldNotOpenEntry
\* or InvalidUnicodeData; the outcome is that of the same scan on the listing
\* without its unreadable entries and, in the two name-based functions,
\* without the entries whose name is not valid text (find_by_extension_and_then
\* never looks at the name: it goes by the extension of such an entry).
C5_IgnoreFail ==
    (Done /\ ignore_fail /\ Listed /\ ~TransformFault)
        => /\ result.tag \notin {"CouldNotOpenEntry", "InvalidUnicodeData"}
           /\ << result, calls, binaries >> =
                 IF NameBased THEN Outcome(SelectSeq(listing, IsReadableValidName))
                 ELSE Outcome(SelectSeq(listing, IsReadable))

C5_Witness ==
    /\ Done /\ ignore_fail /\ Listed /\ op = "name"
    /\ filenames = << <<"a">> >>
    /\ listing = << ErrEntry, FileEntry(<<BAD>>), FileEntry(<<"a">>) >>
    /\ result = Ok /\ calls = << <<"a">> >>

\* ---------------------------------------------------------------------- C6
\* the name nm has an extension that is valid text and is, character for
\* character, a member of exts
ExtensionIn(nm, exts) ==
    \E d \in 2..Len(nm) :
        /\ nm[d] = "."
        /\ \A m \in (d + 1)..Len(nm) : nm[m] # "." /\ nm[m] # BAD
        /\ \E k \in 1..Len(exts) : exts[k] = SubSeq(nm, d + 1, Len(nm))

\* the names of the entries of l that match exts, in listing order
RECURSIVE MatchingNames(_, _)
MatchingNames(l, exts) ==
    IF l = <<>> THEN <<>>
    ELSE (IF ExtensionIn(Head(l).name, exts) THEN << Head(l).name >> ELSE <<>>)
            \o MatchingNames(Tail(l), exts)

\* C6: find_by_extension_and_then over a listing without unreadable entries
\* invokes process() exactly once for each entry whose extension is valid text
\* and equals (case-sensitively) a member of `extensions`, in listing order,
\* and for no other entry; the call returns success.
C6_ExtensionMatches ==
    (Done /\ op = "ext" /\ Listed /\ NoUnreadable(listing))
        => calls = MatchingNames(listing, extensions) /\ result = Ok

C6_Witness ==
    /\ Done /\ op = "ext" /\ Listed
    /\ extensions = << <<"t">> >>
    /\ listing = << FileEntry(<<"a", ".", "t">>), FileEntry(<<"a", ".", "T">>),
                    FileEntry(<<"b", ".", "t">>) >>
    /\ calls = << <<"a", ".", "t">>, <<"b", ".", "t">> >>
\* ---------------------------------------------------------------------- C7
\* the pending 0-based positions of fnames after the entries of l, when each
\* entry consumes the first still-pending occurrence of its name
RECURSIVE PendingAfter(_, _, _)
PendingAfter(pending, fnames, l) ==
    IF l = <<>> THEN pending
    ELSE LET same == { i \in pending : fnames[i + 1] = Head(l).name }
             first == CHOOSE i \in same : \A j \in same : i <= j
         IN PendingAfter(IF same = {} THEN pending ELSE pending \ {first},
                         fnames, Tail(l))

HasDuplicates(s) == \E i, j \in 1..Len(s) : i # j /\ s[i] = s[j]

\* C7: for a request list that repeats a name, each matching entry consumes
\* one pending occurrence of its name, in requested-list order; the call ends
\* in success when nothing stays pending and otherwise in MissingFiles whose
\* index list is exactly the occurrences left over and the unmatched names
\* (listing without unreadable or invalid-name entries, process() not failing).
C7_DuplicatesConsumedInOrder ==
    (Done /\ NameBased /\ Listed /\ HasDuplicates(filenames) /\ CleanNames(listing)
          /\ ~TransformFault)
        => LET left == PendingAfter(0..(Len(filenames) - 1), filenames, listing)
           IN IF left = {} THEN result = Ok
              ELSE result = MissingFiles(SortedSeq(left))

\* ---------------------------------------------------------------------- C8
\* C8: every call of find_and_then and of find_by_extension_and_then on a
\* directory that can be listed returns success or one of the five Error
\* variants; no state of the scan is a panic.
C8_NoPanic ==
    (op \in {"name", "ext"} /\ Listed)
        => result.tag \in {"Running", "Ok"} \cup ErrorTags

\* ---------------------------------------------------------------------- C9
\* the entries a scan with ignore_fail = false stops at: unreadable ones, and
\* in the name-based functions the ones whose name is not valid text
Faulty(e) == IF NameBased THEN NameFaulty(e) ELSE ~e.ok
FirstFault(l) ==
    IF \E k \in 1..Len(l) : Faulty(l[k])
    THEN CHOOSE k \in 1..Len(l) : Faulty(l[k]) /\ \A m \in 1..(k - 1) : ~Faulty(l[m])
    ELSE 0
\* the names of the entries before position j
NamesBefore(l, j) == { l[k].name : k \in { m \in 1..(j - 1) : m <= Len(l) /\ l[m].ok } }

\* C9: with ignore_fail = false, a scan that reaches the first unreadable entry
\* returns CouldNotOpenEntry there, and a name-based scan that reaches the
\* first entry whose name is not valid text returns InvalidUnicodeData there;
\* no entry after it is read, process() was invoked only for entries before
\* it, and MissingFiles is never the result of a listing that has such an entry.
C9_FirstFaultAborts ==
    (Done /\ ~ignore_fail /\ Listed)
        => LET j == FirstFault(listing) IN
           /\ (j > 0 /\ pos >= j)
                => /\ pos = j
                   /\ result = NameFaultError(listing[j])
                   /\ \A k \in 1..Len(calls) : calls[k] \in NamesBefore(listing, j)
           /\ result.tag = "MissingFiles" => j = 0
           /\ result.tag \in {"CouldNotOpenEntry", "InvalidUnicodeData"} => (j > 0 /\ pos = j)

C9_Witness ==
    /\ Done /\ ~ignore_fail /\ Listed /\ op = "name"
    /\ filenames = << <<"a">>, <<"b">> >>
    /\ listing = << FileEntry(<<"b">>), FileEntry(<<BAD>>), FileEntry(<<"a">>) >>
    /\ result = Err("InvalidUnicodeData") /\ calls = << <<"b">> >> /\ pos = 2

\* --------------------------------------------------------------------- C10
\* C10: when the directory argument is not representable as text, each of the
\* three functions returns NullDirectory for both values of ignore_fail;
\* exists() is not evaluated, read_dir is not called, no entry is read and
\* process() is not invoked.
C10_NullDirectory ==
    (Done /\ ~directory.text)
        => /\ result = Err("NullDirectory")
           /\ ~existsChecked /\ ~opened /\ pos = 0 /\ calls = <<>>

C10_Witness ==
    /\ Done /\ ~directory.text /\ directory.listable /\ op = "ext" /\ ignore_fail
    /\ Len(listing) = 2 /\ Len(extensions) = 1
    /\ result = Err("NullDirectory")
\* --------------------------------------------------------------------- C11
\* C11: find_by_extension_and_then never returns MissingFiles or
\* InvalidUnicodeData; over the listing of a text-representable directory that
\* has no unreadable entry it reads every entry and returns success, whatever
\* ignore_fail is, also when entries have no extension or an extension that is
\* not valid text, when no entry matches and when `extensions` is empty.
C11_ExtensionNeverMissing ==
    op = "ext"
        => /\ result.tag \notin {"MissingFiles", "InvalidUnicodeData"}
           /\ (Done /\ Listed /\ NoUnreadable(listing))
                => result = Ok /\ pos = Len(listing)

C11_Witness ==
    /\ Done /\ op = "ext" /\ Listed /\ ~ignore_fail
    /\ extensions = << <<"t">> >>
    /\ listing = << FileEntry(<<"a">>), FileEntry(<<"a", ".", BAD>>), FileEntry(<<".", "t">>) >>
    /\ calls = <<>> /\ result = Ok /\ pos = 3
\* --------------------------------------------------------------------- C12
\* the names of the entries of l that are requested names, in listing order
RECURSIVE RequestedNames(_, _)
RequestedNames(l, fnames) ==
    IF l = <<>> THEN <<>>
    ELSE (IF Head(l).ok /\ \E k \in 1..Len(fnames) : fnames[k] = Head(l).name
          THEN << Head(l).name >> ELSE <<>>)
            \o RequestedNames(Tail(l), fnames)

\* C12: a call of find_and_then over a listing without unreadable or
\* invalid-name entries has, when it ends, invoked process() exactly once for
\* every entry whose name is a requested name and for no other entry, in
\* listing order.
C12_EveryMatchProcessed ==
    (Done /\ op = "name" /\ Listed /\ CleanNames(listing))
        => calls = RequestedNames(listing, filenames)
\* --------------------------------------------------------------------- C13
\* how often x occurs in the sequence s
Occurrences(s, x) == Cardinality({ k \in 1..Len(s) : s[k] = x })

\* C13: in a name-based scan, also of a listing that yields a name twice, a
\* requested name is matched (process() invoked, match counted) no more often
\* than it occurs in `filenames`, and success is never returned while some
\* requested name is the name of no entry.
C13_MatchedAtMostOnce ==
    (NameBased /\ Listed)
        => /\ \A n \in ReqNames : Occurrences(calls, n) <= Occurrences(filenames, n)
           /\ result = Ok => \A k \in 1..Len(filenames) : filenames[k] \in EntryNames(listing)
\* --------------------------------------------------------------------- C14
\* C14: on success find_and_then_and_load returns one buffer per matched
\* entry, in the order of the matched entries in the listing (not in the order
\* of their names in `filenames`): buffer k is the one loaded from
\* process(path of the k-th entry whose name is requested).
C14_BuffersInMatchOrder ==
    (Done /\ op = "load" /\ result = Ok)
        => /\ binaries = RequestedNames(listing, filenames)
           /\ binaries = calls

C14_Witness ==
    /\ Done /\ op = "load" /\ result = Ok
    /\ filenames = << <<"a">>, <<"b">> >>
    /\ listing = << FileEntry(<<"b">>), FileEntry(<<"c">>), FileEntry(<<"a">>) >>
    /\ binaries = << <<"b">>, <<"a">> >>
\* --------------------------------------------------------------------- C15
\* the locals of find_and_then, called with the same filenames, ignore_fail
\* and listing, after it has taken n entries (and returned, when finished)
NameSideBySide(n, finished) ==
    LET st == NameScan(Start(filenames), filenames, ignore_fail, SubSeq(listing, 1, n))
    IN IF finished /\ st.result = Running THEN NameEnd(st, filenames) ELSE st

\* find_and_then_and_load is, after each of its steps, where find_and_then is
\* after as many steps: same entries matched, same count, same pending
\* indexes, same return value
SameAsName ==
    LET n == NameSideBySide(pos, Done) IN
        /\ calls = n.calls
        /\ count = n.count
        /\ indexes = n.indexes
        /\ result = n.result

\* C15 as stated: the two name-based functions, run on the same listing,
\* request list and ignore_fail, agree at every step and in their outcome.
C15_LoadAgreesWithName ==
    (op = "load" /\ Listed /\ pc # "call") => SameAsName

\* C15 amended: they agree at every step and in their outcome as long as
\* every path that process() returns to find_and_then_and_load is valid text
\* and can be loaded (otherwise that function panics at the match, where
\* find_and_then goes on).
C15_LoadAgreesWithNameWhenLoadable ==
    (op = "load" /\ Listed /\ pc # "call" /\ ~TransformFault) => SameAsName

C15_Witness ==
    /\ Done /\ op = "load" /\ Listed
    /\ filenames = << <<"a">>, <<"b">>, <<"c">> >>
    /\ listing = << FileEntry(<<"b">>), FileEntry(<<"a">>) >>
    /\ count = 2 /\ result.tag = "MissingFiles"
\* --------------------------------------------------------------------- C16
\* the listings that hold the entries of l in another enumeration order
Reorderings(l) ==
    { [k \in 1..Len(l) |-> l[p[k]]] : p \in Permutations(1..Len(l)) }

\* C16: for a fixed set of readable, validly named entries and a fixed request
\* list, the outcome of find_and_then is the same for every enumeration order
\* of the entries: success in all, or MissingFiles with the same index list.
C16_OrderIndependent ==
    (Done /\ op = "name" /\ Listed /\ CleanNames(listing))
        => \A l2 \in Reorderings(listing) :
              RunName(Start(filenames), filenames, ignore_fail, l2).result = result

\* --------------------------------------------------------------------- C17
IncreasingInRange(ix, n) ==
    /\ \A k \in 1..Len(ix) : ix[k] \in 0..(n - 1)
    /\ \A j, k \in 1..Len(ix) : j < k => ix[j] < ix[k]

\* C17: in every state of a name-based call that has not panicked,
\* count + len(indexes) = len(filenames) and indexes holds distinct in-range
\* indices in increasing order; success is returned exactly when indexes is
\* empty at the end of the listing, and a MissingFiles list is never empty.
C17_CountPlusPending ==
    (NameBased /\ result.tag # "Panic")
        => /\ count + Len(indexes) = Len(filenames)
           /\ IncreasingInRange(indexes, Len(filenames))
           /\ result = Ok => (indexes = <<>> /\ pos = Len(listing))
           /\ result.tag = "MissingFiles"
                => (result.idx = indexes /\ indexes # <<>> /\ pos = Len(listing))

C17_Witness ==
    /\ Done /\ op = "name" /\ Listed
    /\ filenames = << <<"a">>, <<"b">>, <<"c">> >>
    /\ listing = << FileEntry(<<"c">>), FileEntry(<<"a">>) >>
    /\ count = 2 /\ Len(indexes) = 1 /\ result = MissingFiles(indexes)

\* --------------------------------------------------------------------- C18
\* the names of the entries of l that the called function matches
MatchedNames(l) ==
    IF op = "ext" THEN MatchingNames(SelectSeq(l, IsReadable), extensions)
    ELSE RequestedNames(l, filenames)

\* C18: when find_and_then or find_by_extension_and_then returns
\* CouldNotOpenEntry or InvalidUnicodeData, it does so with ignore_fail = false
\* at the entry it read last, and process() has been invoked exactly once for
\* each matching entry before that entry, in order, and for no other entry:
\* the effects of process() stay although the call reports an error.
C18_EffectsBeforeAbort ==
    (op \in {"name", "ext"} /\ result.tag \in {"CouldNotOpenEntry", "InvalidUnicodeData"})
        => /\ Done /\ ~ignore_fail /\ pos >= 1
           /\ Faulty(listing[pos])
           /\ calls = MatchedNames(SubSeq(listing, 1, pos - 1))

C18_Witness ==
    /\ Done /\ op = "name" /\ Listed /\ ~ignore_fail
    /\ filenames = << <<"a">>, <<"b">> >>
    /\ listing = << FileEntry(<<"b">>), ErrEntry, FileEntry(<<"a">>) >>
    /\ result = Err("CouldNotOpenEntry") /\ calls = << <<"b">> >>
====
